---- MODULE Spec2Model ----
(***************************************************************************)
(* Model of the document-tree explorer: the tree store (treeStore), the    *)
(* context store (contextStore), the TreeVisualization render effect with  *)
(* its click / context-menu / minimap handlers, the TreeViewPage zoom      *)
(* buttons and DocumentService.mapRowsToDocuments.                         *)
(*                                                                         *)
(* Node ids are integers: 0 is the synthetic 'root' node of the            *)
(* visualization, 1..MaxNodes are document ids, MaxNodes+1 is an id that   *)
(* no loaded document has.  A parent_id of 0 stands for null.              *)
(***************************************************************************)
EXTENDS Integers, Sequences, FiniteSets, TLC

\* ------------------------------------------------------------------ bounds
MaxNodes == 4

\* --------------------------------------------------------------- variables
VARIABLES
    dbRows,          \* rows of the documents query being mapped (<<>>: none)
    fetched,         \* the document list the API returns (react-query)
    data,            \* DocumentNode[] handed to TreeVisualization
    nodes,           \* treeStore.nodes: Map from id to DocumentNode
    rootNodes,       \* treeStore.rootNodes
    expandedNodes,   \* treeStore.expandedNodes
    selectedNodes,   \* treeStore.selectedNodes
    focusedNode,     \* treeStore.focusedNode (NoNode = null)
    frame,           \* what the last run of the render effect drew
    lastOp,          \* the operation the last step performed
    prevExpanded,    \* expandedNodes before the last operation
    prevSelected,    \* selectedNodes before the last operation
    runLen,          \* consecutive toggleExpansion calls on lastOp.id (capped)
    rt,              \* collapse/expand round trip in progress
    includedNodes,   \* contextStore.currentSession.includedNodes
    pinnedNodes,     \* contextStore.currentSession.pinnedNodes
    excludedNodes,   \* contextStore.currentSession.excludedNodes
    prevCtx,         \* the three context sets before the last operation
    cycleRun,        \* flags seen in a run of context cycles on one node
    suggestions,     \* contextStore.suggestions: node ids, best first
    savedSession,    \* contextStore.sessions entry of the current session id
    zoomT,           \* svg.__zoom, the transform d3-zoom keeps: [k, x, y]
    gT,              \* the transform attribute of the root group: [k, tx, ty]
    zoomLevel,       \* TreeViewPage zoomLevel (CSS scale of the container)
    recenter,        \* target of the minimap transition in flight
    gesture,         \* "wheel" while a wheel gesture is active, else "none"
    nodePos,         \* laid-out position [x, y] of each node with a dot
    mmNodes,         \* positioned nodes handed to createMinimap
    mmDots,          \* the dots createMinimap drew: [cx, cy]
    nodeFill,        \* the fill colour of each node circle drawn
    treeData,        \* treeLayout(root): position [x, y] of every node
    svgNodes,        \* the node elements in the svg: [id, el]
    running,         \* the transitions that run on node elements
    joined,          \* enter, update and exit selection of the last join
    renderNo,        \* number of runs of the render effect (capped)
    nodePath,        \* the last getNodePath call: its path and current
    jobs,            \* DocumentProcessor jobs: status of each created job
    isProcessing,    \* DocumentProcessor isProcessing
    currentJob,      \* DocumentProcessor currentJob (NoNode = null)
    inflight,        \* jobs whose batchProcessDocuments call is pending
    stoppedJobs      \* jobs that stopJob has set to 'error'

treeVars == <<dbRows, fetched, data, nodes, rootNodes, expandedNodes,
              selectedNodes, focusedNode, frame, prevExpanded, prevSelected,
              runLen, rt>>

ctxVars == <<includedNodes, pinnedNodes, excludedNodes, prevCtx, cycleRun,
             suggestions, savedSession>>

viewVars == <<zoomT, gT, zoomLevel, recenter, gesture, nodePos>>

domVars == <<svgNodes, running, joined, renderNo>>

procVars == <<jobs, isProcessing, currentJob, inflight, stoppedJobs>>

mmVars == <<mmNodes, mmDots, nodeFill, treeData, domVars, nodePath, procVars>>

vars == <<treeVars, ctxVars, viewVars, mmVars, lastOp>>

\* ----------------------------------------------------------------- helpers
RootId == 0
NoNode == -1
UnknownId == MaxNodes + 1
DocIds == 1..MaxNodes
Ids == 0..UnknownId

Range(s) == {s[i] : i \in DOMAIN s}

Op(name, id, multi) == [op |-> name, id |-> id, multi |-> multi]

\* createDefaultSession: three empty sets
EmptyCtx == [included |-> {}, pinned |-> {}, excluded |-> {}]
NoRun == [id |-> NoNode, flags |-> <<>>]

\* sessions: new Map() has no entry for the current session id
NoSession == [included |-> {NoNode}, pinned |-> {}, excluded |-> {}]

CtxIdle ==
    /\ includedNodes = {}
    /\ pinnedNodes = {}
    /\ excludedNodes = {}
    /\ prevCtx = EmptyCtx
    /\ cycleRun = NoRun
    /\ suggestions = <<>>
    /\ savedSession = NoSession

\* scales are in hundredths: 100 is the scale 1.0
Identity == [k |-> 100, x |-> 0, y |-> 0]
NoRecenter == [k |-> 0, x |-> 0, y |-> 0, id |-> NoNode]
margin == 40

\* .attr('transform', `translate(${margin.left},${margin.top})`)
RootGroupTransform == [k |-> 100, tx |-> margin, ty |-> margin]

ViewIdle ==
    /\ zoomT = Identity
    /\ gT = RootGroupTransform
    /\ zoomLevel = 100
    /\ recenter = NoRecenter
    /\ gesture = "none"
    /\ nodePos = <<>>

\* no getNodePath call was made
NoPath == [id |-> NoNode, path |-> <<>>, current |-> NoNode]

NoJoin == [before |-> {}, enter |-> {}, update |-> {}, exit |-> {}]

\* nothing rendered yet
DomIdle ==
    /\ svgNodes = {}
    /\ running = {}
    /\ joined = NoJoin
    /\ renderNo = 0

\* useState<ProcessingJob[]>([]), isProcessing false, currentJob null
ProcIdle ==
    /\ jobs = <<>>
    /\ isProcessing = FALSE
    /\ currentJob = NoNode
    /\ inflight = {}
    /\ stoppedJobs = {}

MinimapIdle ==
    /\ mmNodes = <<>>
    /\ mmDots = <<>>
    /\ nodeFill = <<>>
    /\ treeData = <<>>
    /\ DomIdle
    /\ nodePath = NoPath
    /\ ProcIdle

\* ------------------------------------- DocumentService.mapRowsToDocuments
\* A row is [id, name, type, parent_id]; rows[i].id = i (ids are the primary
\* key of the documents table), so documentMap is the row list itself.
\* Names are integers ordered as localeCompare orders the strings.

\* childrenMap.get(p): the docs whose parentId is p, in documentMap order
ChildrenMap(rows, p) ==
    LET HasParent(r) == r.parent_id = p
        sel == SelectSeq(rows, HasParent)
    IN  [i \in 1..Len(sel) |-> sel[i].id]

SortKeepsInputOrder(rs, s) == s

RECURSIVE InsertByName(_, _, _)
InsertByName(rows, s, id) ==
    IF s = <<>> THEN <<id>>
    ELSE IF rows[Head(s)].name <= rows[id].name
         THEN <<Head(s)>> \o InsertByName(rows, Tail(s), id)
         ELSE <<id>> \o s

\* children.sort((a, b) => a.name.localeCompare(b.name)), a stable sort
RECURSIVE SortByName(_, _)
SortByName(rows, s) ==
    IF s = <<>> THEN <<>>
    ELSE InsertByName(rows, SortByName(rows, SubSeq(s, 1, Len(s) - 1)), s[Len(s)])

RECURSIVE assignChildren(_, _, _)
RECURSIVE assignEach(_, _, _)
assignChildren(rows, docs, id) ==
    LET children == ChildrenMap(rows, id)
    IN  IF children = <<>> THEN docs
        ELSE LET sorted == SortByName(rows, children)
             IN  assignEach(rows, [docs EXCEPT ![id].children = sorted], sorted)

\* xs.forEach(assignChildren)
assignEach(rows, docs, xs) ==
    IF xs = <<>> THEN docs
    ELSE assignEach(rows, assignChildren(rows, docs, Head(xs)), Tail(xs))

mapRowsToDocuments(rows) ==
    LET docs0 == [i \in 1..Len(rows) |->
                    [id |-> rows[i].id, name |-> rows[i].name,
                     type |-> rows[i].type, parentId |-> rows[i].parent_id,
                     children |-> <<>>]]
        rootDocs == ChildrenMap(rows, 0)
    IN  assignEach(rows, docs0, rootDocs)

\* ------------------------------------------- TreeVisualization: hierarchy
\* data.filter(node => !node.parentId): children of the synthetic root
TopLevel(d) ==
    LET NoParent(n) == n.parentId = 0
        sel == SelectSeq(d, NoParent)
    IN  [i \in 1..Len(sel) |-> sel[i].id]

\* the children accessor (d) => d.children of d3.hierarchy
ChildIds(d, id) == IF id = RootId THEN TopLevel(d) ELSE d[id].children

\* node.descendants(): breadth-first from the root
RECURSIVE descendants(_, _, _)
descendants(d, queue, acc) ==
    IF queue = <<>> THEN acc
    ELSE descendants(d, Tail(queue) \o ChildIds(d, Head(queue)),
                     Append(acc, Head(queue)))

TypeOfAlwaysFolder(d, id) == "folder"

\* d.data.type; the synthetic root is a folder
TypeOf(d, id) == IF id = RootId THEN "folder" ELSE d[id].type

\* 'Handle node collapse/expand state': what a node keeps in d.children
CollapseChildren(kids, isExpanded) == IF isExpanded THEN kids ELSE <<>>

CollapseHiddenDrops(kids, isExpanded) == <<>>

\* ... and what it moves to d._children
CollapseHidden(kids, isExpanded) == IF isExpanded THEN <<>> ELSE kids

LinksWithRoot(drawn) == drawn

\* treeData.descendants().slice(1): one link per node below the root,
\* named by its target; its source is the target's parent in the hierarchy
LinkTargets(drawn) == Tail(drawn)

EmptyFrame == [nodes |-> <<>>, links |-> <<>>,
               children |-> <<>>, hidden |-> <<>>]

\* One run of the render effect: the node and link sets given to the data
\* joins, and each node's children / _children after collapse handling.
renderEffect(d, expanded, old) ==
    IF Len(d) = 0 THEN old
    ELSE LET drawn == descendants(d, <<RootId>>, <<>>)
             links == LinkTargets(drawn)
         IN  [nodes |-> drawn,
              links |-> links,
              children |-> [n \in Range(drawn) |->
                  CollapseChildren(ChildIds(d, n), n \in expanded)],
              hidden |-> [n \in Range(drawn) |->
                  CollapseHidden(ChildIds(d, n), n \in expanded)]]

\* ------------------------------------------------------------- tree inputs
Rows(parents, types, names) ==
    [i \in DocIds |-> [id |-> i, name |-> names[i], type |-> types[i],
                       parent_id |-> parents[i]]]

HasChild(p, i) == \E j \in DocIds : p[j] = i

\* well-formed forests: every parent precedes its children
ForestParents ==
    {p \in [DocIds -> 0..MaxNodes] :
        \A i \in DocIds : p[i] < i /\ p[i] \in {0, 1, i - 1}}

Forest(p, allFolders) ==
    mapRowsToDocuments(Rows(p,
        [i \in DocIds |-> IF HasChild(p, i) \/ allFolders
                          THEN "folder" ELSE "document"],
        [i \in DocIds |-> 1]))

\* the store never reads a node's type: a folder is a node with children
TreeInputs == {Forest(p, FALSE) : p \in ForestParents}

\* ------------------------------------------------------ treeStore actions
ToggleSetAddOnly(s, id) == s \cup {id}

\* toggleExpansion: delete when present, add otherwise
ToggleSet(s, id) == IF id \in s THEN s \ {id} ELSE s \cup {id}

\* the subtree under f in a frame, through children or _children
FrameKids(fr, n) ==
    IF fr.children[n] # <<>> THEN fr.children[n] ELSE fr.hidden[n]

RECURSIVE Subtree(_, _, _)
Subtree(fr, queue, acc) ==
    IF queue = <<>> THEN acc
    ELSE Subtree(fr, Tail(queue) \o FrameKids(fr, Head(queue)),
                 Append(acc, Head(queue)))

NoRt == [phase |-> 0, id |-> NoNode, before |-> <<>>]

\* history of a collapse followed at once by an expand of the same node
NextRt(id, wasExpanded, isExpanded) ==
    IF wasExpanded /\ ~isExpanded /\ id \in Range(frame.nodes)
    THEN [phase |-> 1, id |-> id, before |-> Subtree(frame, <<id>>, <<>>)]
    ELSE IF ~wasExpanded /\ isExpanded /\ rt.phase = 1 /\ rt.id = id
         THEN [rt EXCEPT !.phase = 2]
         ELSE NoRt

\* every store update re-runs the render effect (expandedNodes is a dependency)
ExpansionStep(name, id, newExpanded) ==
    /\ expandedNodes' = newExpanded
    /\ frame' = renderEffect(data, newExpanded, frame)
    /\ prevExpanded' = expandedNodes
    /\ prevSelected' = selectedNodes
    /\ runLen' = IF name = "toggleExpansion"
                 THEN IF lastOp.op = "toggleExpansion" /\ lastOp.id = id
                      THEN IF runLen < 2 THEN runLen + 1 ELSE 2
                      ELSE 1
                 ELSE 0
    /\ rt' = NextRt(id, id \in expandedNodes, id \in newExpanded)
    /\ lastOp' = Op(name, id, FALSE)
    /\ UNCHANGED <<dbRows, fetched, data, nodes, rootNodes, selectedNodes, focusedNode>>
    /\ UNCHANGED <<ctxVars, viewVars, mmVars>>

expandNode(id) ==
    ExpansionStep("expandNode", id, expandedNodes \cup {id})

collapseNode(id) ==
    ExpansionStep("collapseNode", id, expandedNodes \ {id})

toggleExpansion(id) ==
    ExpansionStep("toggleExpansion", id, ToggleSet(expandedNodes, id))

\* treeStore.setNodes: the Map (a later entry of an id replaces an earlier)
setNodesMap(d) ==
    [id \in {d[i].id : i \in DOMAIN d} |->
        d[CHOOSE i \in DOMAIN d :
            d[i].id = id /\ \A j \in DOMAIN d : d[j].id = id => j <= i]]

\* treeStore.setNodes: rootNodes gets the nodes without parentId, in order
setNodesRoots(d) ==
    LET NoParent(n) == n.parentId = 0
        sel == SelectSeq(d, NoParent)
    IN  [i \in 1..Len(sel) |-> sel[i].id]

\* the tree page once the document list d is loaded, stores as constructed
TreeLoaded(d) ==
    /\ dbRows = <<>>
    /\ fetched = d
    /\ data = d
    /\ nodes = setNodesMap(d)
    /\ rootNodes = setNodesRoots(d)
    /\ expandedNodes = {}
    /\ selectedNodes = {}
    /\ focusedNode = NoNode
    /\ frame = renderEffect(d, {}, EmptyFrame)
    /\ lastOp = Op("init", NoNode, FALSE)
    /\ prevExpanded = {}
    /\ prevSelected = {}
    /\ runLen = 0
    /\ rt = NoRt

InitExpansion ==
    /\ \E d \in TreeInputs : TreeLoaded(d)
    /\ CtxIdle
    /\ ViewIdle
    /\ MinimapIdle

NextExpansion ==
    \/ \E id \in Ids : toggleExpansion(id)
    \/ \E id \in Ids : expandNode(id)
    \/ \E id \in Ids : collapseNode(id)

SpecExpansion == InitExpansion /\ [][NextExpansion]_vars

\* ---------------------------------------------- expansion: claims C1 C4 C6
\* C1: toggleExpansion(id) called twice in a row leaves expandedNodes equal
\* to its value before the first call, for every id.
ToggleInvolution ==
    [][(lastOp.op = "toggleExpansion" /\ lastOp'.op = "toggleExpansion"
        /\ lastOp'.id = lastOp.id)
       => expandedNodes' = prevExpanded]_vars

ToggledTwice ==
    /\ runLen = 2
    /\ lastOp.op = "toggleExpansion"
    /\ lastOp.id \in expandedNodes
    /\ prevExpanded # expandedNodes

\* the proper ancestors of a document among the documents (parentId chain)
RECURSIVE Ancestors(_, _, _)
Ancestors(d, id, fuel) ==
    IF fuel = 0 \/ d[id].parentId \notin 1..Len(d) THEN {}
    ELSE {d[id].parentId} \cup Ancestors(d, d[id].parentId, fuel - 1)

\* C4: a node is in the rendered node set if and only if all of its proper
\* ancestors are in expandedNodes.
VisibleIffAncestorsExpanded ==
    \A n \in 1..Len(data) :
        n \in Range(frame.nodes)
            <=> Ancestors(data, n, Len(data)) \subseteq expandedNodes

\* C6: a collapse followed by an expand of the same folder gives the same
\* subtree (same ids, same order) as before the collapse, and no frame has
\* lost or reordered children of the source hierarchy.
ExpandCollapseRoundTrip ==
    /\ rt.phase = 2 => Subtree(frame, <<rt.id>>, <<>>) = rt.before
    /\ \A n \in Range(frame.nodes) : FrameKids(frame, n) = ChildIds(data, n)

RoundTripDone ==
    /\ rt.phase = 2
    /\ TypeOf(data, rt.id) = "folder"
    /\ Len(rt.before) > 2
    /\ rt.id \in expandedNodes

\* C11: an expansion operation called with an id that no loaded node has
\* leaves expandedNodes as it was.
UnknownIdIsNoOp ==
    (lastOp.op \in {"toggleExpansion", "expandNode", "collapseNode"}
     /\ lastOp.id \notin DOMAIN nodes \cup {RootId})
        => expandedNodes = prevExpanded

\* --------------------------------------------- selection, focus and click
MaxClickId == 2
ClickIds == 0..MaxClickId
SelIds == ClickIds

SelectSetKeepsOld(s, id, multi) == s \cup {id}

\* selectNode: clear unless multi, then add
SelectSet(s, id, multi) == IF ~multi THEN {id} ELSE s \cup {id}

SelectionStep(op, newExpanded, newSelected, newFocused) ==
    /\ expandedNodes' = newExpanded
    /\ selectedNodes' = newSelected
    /\ focusedNode' = newFocused
    /\ frame' = renderEffect(data, newExpanded, frame)
    /\ prevExpanded' = expandedNodes
    /\ prevSelected' = selectedNodes
    /\ runLen' = 0
    /\ rt' = NoRt
    /\ lastOp' = op
    /\ UNCHANGED <<dbRows, fetched, data, nodes, rootNodes>>
    /\ UNCHANGED <<ctxVars, viewVars, mmVars>>

selectNode(id, multi) ==
    SelectionStep(Op("selectNode", id, multi), expandedNodes,
                  SelectSet(selectedNodes, id, multi), focusedNode)

deselectNode(id) ==
    SelectionStep(Op("deselectNode", id, FALSE), expandedNodes,
                  selectedNodes \ {id}, focusedNode)

clearSelection ==
    SelectionStep(Op("clearSelection", NoNode, FALSE), expandedNodes,
                  {}, focusedNode)

setFocusedNode(id) ==
    SelectionStep(Op("setFocusedNode", id, FALSE), expandedNodes,
                  selectedNodes, id)

\* the click handler of a node circle; multi is event.ctrlKey || event.metaKey
NodeClick(id, multi) ==
    /\ id \in Range(frame.nodes)
    /\ SelectionStep(Op("click", id, multi),
           IF TypeOf(data, id) = "folder"
           THEN ToggleSet(expandedNodes, id) ELSE expandedNodes,
           SelectSet(selectedNodes, id, multi),
           id)

\* chains and flat lists among the clicked nodes, the other nodes top-level,
\* with and without empty folders
ClickInputs ==
    {Forest(p, allFolders) :
        p \in {q \in ForestParents :
                 \A i \in DocIds : q[i] \in (IF i \in ClickIds THEN {0, i - 1}
                                                           ELSE {0})},
        allFolders \in BOOLEAN}

InitClick ==
    /\ \E d \in ClickInputs : TreeLoaded(d)
    /\ CtxIdle
    /\ ViewIdle
    /\ MinimapIdle

NextClick ==
    \/ \E id \in SelIds, multi \in BOOLEAN : selectNode(id, multi)
    \/ \E id \in SelIds : deselectNode(id)
    \/ clearSelection
    \/ \E id \in ClickIds \cup {NoNode} : setFocusedNode(id)
    \/ \E id \in ClickIds, multi \in BOOLEAN : NodeClick(id, multi)

SpecClick == InitClick /\ [][NextClick]_vars

\* C2: a non-multi selectNode(id) replaces the selection with {id}; a multi
\* selectNode(id) adds id to the selection as it was.
SelectReplaceOrAdd ==
    lastOp.op = "selectNode" =>
        selectedNodes = IF lastOp.multi
                        THEN prevSelected \cup {lastOp.id}
                        ELSE {lastOp.id}

\* {A} then selectNode(B, multi) gives {A, B}
SelectedSecondWithModifier ==
    /\ lastOp.op = "selectNode"
    /\ lastOp.multi
    /\ Cardinality(prevSelected) = 1
    /\ lastOp.id \notin prevSelected
    /\ Cardinality(selectedNodes) = 2

\* C10: a left-click toggles the node's membership in expandedNodes if and
\* only if the node is a folder, puts the node in selectedNodes (replacing
\* the set unless the modifier is held) and always focuses it.
LeftClickEffect ==
    lastOp.op = "click" =>
        /\ expandedNodes \ {lastOp.id} = prevExpanded \ {lastOp.id}
        /\ ((lastOp.id \in expandedNodes) # (lastOp.id \in prevExpanded))
              <=> (lastOp.id = RootId \/ data[lastOp.id].type = "folder")
        /\ selectedNodes = IF lastOp.multi
                           THEN prevSelected \cup {lastOp.id}
                           ELSE {lastOp.id}
        /\ focusedNode = lastOp.id

ClickedFolderWithModifier ==
    /\ lastOp.op = "click"
    /\ lastOp.multi
    /\ lastOp.id # RootId
    /\ TypeOf(data, lastOp.id) = "folder"
    /\ lastOp.id \in prevExpanded
    /\ lastOp.id \notin expandedNodes
    /\ Cardinality(selectedNodes) = 2
    /\ focusedNode = lastOp.id

\* ------------------------------------------------------------ contextStore
MaxCtxId == 2
MaxCycle == 4
CtxIds == 1..MaxCtxId

Ctx == [included |-> includedNodes, pinned |-> pinnedNodes,
        excluded |-> excludedNodes]

includeNodeSets(c, id) ==
    [included |-> c.included \cup {id}, pinned |-> c.pinned,
     excluded |-> c.excluded \ {id}]

excludeNodeSets(c, id) ==
    [included |-> c.included \ {id}, pinned |-> c.pinned \ {id},
     excluded |-> c.excluded \cup {id}]

pinNodeSets(c, id) ==
    [included |-> c.included \cup {id}, pinned |-> c.pinned \cup {id},
     excluded |-> c.excluded \ {id}]

unpinNodeSets(c, id) ==
    [included |-> c.included, pinned |-> c.pinned \ {id},
     excluded |-> c.excluded]

removeFromContextSets(c, id) ==
    [included |-> c.included \ {id}, pinned |-> c.pinned \ {id},
     excluded |-> c.excluded \ {id}]

CycleBranchWraps(c, id) ==
    IF id \in c.pinned THEN "excludeNode"
    ELSE IF id \in c.included THEN "pinNode"
    ELSE "includeNode"

\* the branch showContextMenu takes for a node, in the order it tests
CycleBranch(c, id) ==
    IF id \in c.pinned THEN "excludeNode"
    ELSE IF id \in c.included THEN "pinNode"
    ELSE IF id \in c.excluded THEN "none"
    ELSE "includeNode"

showContextMenuSets(c, id) ==
    LET branch == CycleBranch(c, id)
    IN  IF branch = "excludeNode" THEN excludeNodeSets(c, id)
        ELSE IF branch = "pinNode" THEN pinNodeSets(c, id)
        ELSE IF branch = "includeNode" THEN includeNodeSets(c, id)
        ELSE c

\* the context flag of a node as the tree shows it
Flag(c, id) ==
    IF id \in c.pinned THEN "pinned"
    ELSE IF id \in c.included THEN "included"
    ELSE IF id \in c.excluded THEN "excluded"
    ELSE "neutral"

NextRun(name, id, c, new) ==
    IF name # "contextCycle" THEN NoRun
    ELSE IF cycleRun.id = id /\ cycleRun.flags # <<>>
         THEN IF Len(cycleRun.flags) <= MaxCycle
              THEN [cycleRun EXCEPT !.flags = Append(@, Flag(new, id))]
              ELSE cycleRun
         ELSE IF id \notin c.included \cup c.pinned \cup c.excluded
              THEN [id |-> id, flags |-> <<"neutral", Flag(new, id)>>]
              ELSE NoRun

\* the render effect closes over the sets of the latest render, and every
\* store update re-renders before the next event
CtxStep(name, id, new) ==
    /\ includedNodes' = new.included
    /\ pinnedNodes' = new.pinned
    /\ excludedNodes' = new.excluded
    /\ prevCtx' = Ctx
    /\ cycleRun' = NextRun(name, id, Ctx, new)
    /\ lastOp' = Op(name, id, FALSE)
    /\ UNCHANGED <<suggestions, savedSession, treeVars, viewVars, mmVars>>

includeNode(id) == CtxStep("includeNode", id, includeNodeSets(Ctx, id))
excludeNode(id) == CtxStep("excludeNode", id, excludeNodeSets(Ctx, id))
pinNode(id) == CtxStep("pinNode", id, pinNodeSets(Ctx, id))
unpinNode(id) == CtxStep("unpinNode", id, unpinNodeSets(Ctx, id))
removeFromContext(id) ==
    CtxStep("removeFromContext", id, removeFromContextSets(Ctx, id))

\* right-click on a node circle
ContextCycle(id) ==
    /\ id \in Range(frame.nodes)
    /\ CtxStep("contextCycle", id, showContextMenuSets(Ctx, id))

InitCtx ==
    /\ \E d \in ClickInputs : TreeLoaded(d)
    /\ CtxIdle
    /\ ViewIdle
    /\ MinimapIdle

NextCtx ==
    \/ \E id \in CtxIds : includeNode(id)
    \/ \E id \in CtxIds : excludeNode(id)
    \/ \E id \in CtxIds : pinNode(id)
    \/ \E id \in CtxIds : unpinNode(id)
    \/ \E id \in CtxIds : removeFromContext(id)
    \/ \E id \in CtxIds : ContextCycle(id)

SpecCtx == InitCtx /\ [][NextCtx]_vars

ExpectedFlag(i) ==
    IF i = 1 THEN "neutral"
    ELSE IF i = 2 THEN "included"
    ELSE IF i = 3 THEN "pinned"
    ELSE "excluded"

HierParents ==
    {p \in [DocIds -> 0..UnknownId] :
        \A i \in DocIds : p[i] < i \/ p[i] = UnknownId}

HierInputs ==
    {mapRowsToDocuments(Rows(p,
        [i \in DocIds |-> IF HasChild(p, i) THEN "folder" ELSE "document"],
        [i \in DocIds |-> 1])) : p \in HierParents}

\* TreeViewPage: documents arrive, setNodes(documents), and the tree
\* component renders them
LoadDocuments ==
    /\ data' = fetched
    /\ nodes' = setNodesMap(fetched)
    /\ rootNodes' = setNodesRoots(fetched)
    /\ frame' = renderEffect(fetched, expandedNodes, frame)
    /\ lastOp' = Op("load", NoNode, FALSE)
    /\ prevExpanded' = expandedNodes
    /\ prevSelected' = selectedNodes
    /\ runLen' = 0
    /\ rt' = NoRt
    /\ UNCHANGED <<dbRows, fetched, expandedNodes, selectedNodes, focusedNode>>
    /\ UNCHANGED <<ctxVars, viewVars, mmVars>>

InitHier ==
    /\ dbRows = <<>>
    /\ fetched \in HierInputs
    /\ data = <<>>
    /\ nodes = <<>>
    /\ rootNodes = <<>>
    /\ expandedNodes = {}
    /\ selectedNodes = {}
    /\ focusedNode = NoNode
    /\ frame = EmptyFrame
    /\ lastOp = Op("init", NoNode, FALSE)
    /\ prevExpanded = {}
    /\ prevSelected = {}
    /\ runLen = 0
    /\ rt = NoRt
    /\ CtxIdle
    /\ ViewIdle
    /\ MinimapIdle

NextHier == LoadDocuments

SpecHier == InitHier /\ [][NextHier]_vars

Count(s, x) == Cardinality({i \in DOMAIN s : s[i] = x})

Unresolved(d, i) ==
    d[i].parentId # 0 /\ d[i].parentId \notin {d[j].id : j \in DOMAIN d}

\* C7: every input node appears exactly once in the built hierarchy, and a
\* node whose parentId matches no node's id is a direct child of the
\* synthetic root.
EveryNodeOnceOrphansAtRoot ==
    lastOp.op = "load" =>
        \A i \in DOMAIN data :
            /\ Count(frame.nodes, data[i].id) = 1
            /\ Unresolved(data, i)
                  => data[i].id \in Range(FrameKids(frame, RootId))

\* ------------------------------------------------- viewport: pan and zoom
MaxPan == 1
PanStep == 100
ViewNodes == 1

\* useState({ width: 800, height: 600 })
width == 800
height == 600
innerWidth == width - margin - margin
innerHeight == height - margin - margin

MinScale == 10
MaxScale == 300

Min2(a, b) == IF a < b THEN a ELSE b
Max2(a, b) == IF a > b THEN a ELSE b

\* d3.zoom().scaleExtent([0.1, 3]) applied by a wheel gesture
ClampScale(k) == Max2(MinScale, Min2(MaxScale, k))

\* the 'zoom' listener: what it writes to the root group for a transform
ZoomHandler(t) == [k |-> t.k, tx |-> margin + t.x, ty |-> margin + t.y]

\* positions d3.tree().size([innerHeight, innerWidth]) can give a node
\* below the root: x in [0, innerHeight], y in (0, innerWidth]
PosGrid ==
    {[x |-> a, y |-> b] : a \in {0, innerHeight \div 2, innerHeight},
                          b \in {innerWidth}}

\* wheel event by the factor num/den with the pointer over the origin of
\* the zoomed content, where the translation is kept.  The first event of a
\* gesture is ignored when it does not change the scale, and otherwise
\* interrupts a transition; a later event of the gesture does neither
Wheel(num, den) ==
    LET k == ClampScale((zoomT.k * num) \div den)
    IN  /\ gesture = "wheel" \/ k # zoomT.k
        /\ zoomT' = [zoomT EXCEPT !.k = k]
        /\ gT' = ZoomHandler(zoomT')
        /\ recenter' = IF gesture = "wheel" THEN recenter ELSE NoRecenter
        /\ gesture' = "wheel"
        /\ lastOp' = Op("wheel", NoNode, FALSE)
        /\ UNCHANGED <<zoomLevel, nodePos, treeVars, ctxVars, mmVars>>

Abs(a) == IF a < 0 THEN -a ELSE a

\* the wheel gesture ends when no wheel event came for the wheel delay
WheelIdle ==
    /\ gesture = "wheel"
    /\ gesture' = "none"
    /\ lastOp' = Op("wheelIdle", NoNode, FALSE)
    /\ UNCHANGED <<zoomT, gT, zoomLevel, recenter, nodePos>>
    /\ UNCHANGED <<treeVars, ctxVars, mmVars>>

\* drag by (dx, dy), from mousedown to mouseup; mousedown interrupts a
\* transition
Drag(dx, dy) ==
    /\ Abs(zoomT.x + dx) <= MaxPan * PanStep
    /\ Abs(zoomT.y + dy) <= MaxPan * PanStep
    /\ zoomT' = [zoomT EXCEPT !.x = @ + dx, !.y = @ + dy]
    /\ gT' = ZoomHandler(zoomT')
    /\ recenter' = NoRecenter
    /\ lastOp' = Op("drag", NoNode, FALSE)
    /\ UNCHANGED <<zoomLevel, gesture, nodePos, treeVars, ctxVars, mmVars>>

ZoomButton(name, level) ==
    /\ zoomLevel' = level
    /\ lastOp' = Op(name, NoNode, FALSE)
    /\ UNCHANGED <<zoomT, gT, recenter, gesture, nodePos>>
    /\ UNCHANGED <<treeVars, ctxVars, mmVars>>

\* setZoomLevel(prev => Math.min(prev * 1.2, 3))
handleZoomIn == ZoomButton("handleZoomIn", Min2((zoomLevel * 12) \div 10, MaxScale))

\* setZoomLevel(prev => Math.max(prev / 1.2, 0.1))
handleZoomOut == ZoomButton("handleZoomOut", Max2((zoomLevel * 10) \div 12, MinScale))

handleResetZoom == ZoomButton("handleResetZoom", 100)

\* the effect runs again for a changed dependency: the svg is emptied and a
\* new root group is appended; svg.call(zoom) keeps the stored __zoom
RenderAgain ==
    /\ gT' = RootGroupTransform
    /\ frame' = renderEffect(data, expandedNodes, frame)
    /\ lastOp' = Op("render", NoNode, FALSE)
    /\ UNCHANGED <<zoomT, zoomLevel, recenter, gesture, nodePos>>
    /\ UNCHANGED <<ctxVars, mmVars>>
    /\ UNCHANGED <<dbRows, fetched, data, nodes, rootNodes, expandedNodes,
                   selectedNodes, focusedNode, prevExpanded, prevSelected,
                   runLen, rt>>

\* d3.zoomIdentity.translate(svgWidth / 2 - d.y, svgHeight / 2 - d.x).scale(1)
RecenterTarget(n) ==
    [k |-> 100, x |-> width \div 2 - nodePos[n].y,
     y |-> height \div 2 - nodePos[n].x, id |-> n]

MinimapSelectMulti(s, n) == SelectSet(s, n, TRUE)

\* selectNode(d.data.id) in the click handler of a minimap dot: multi is
\* left at its default, false
MinimapSelect(s, n) == SelectSet(s, n, FALSE)

\* click on the minimap dot of node n: selectNode(n), setFocusedNode(n),
\* and a 750ms transition of the svg to the target starts
MinimapClick(n) ==
    /\ innerWidth > 600 /\ innerHeight > 400
    /\ n \in DOMAIN nodePos
    /\ selectedNodes' = MinimapSelect(selectedNodes, n)
    /\ focusedNode' = n
    /\ frame' = renderEffect(data, expandedNodes, frame)
    /\ gT' = RootGroupTransform
    /\ recenter' = RecenterTarget(n)
    /\ prevExpanded' = expandedNodes
    /\ prevSelected' = selectedNodes
    /\ runLen' = 0
    /\ rt' = NoRt
    /\ lastOp' = Op("minimapClick", n, FALSE)
    /\ UNCHANGED <<dbRows, fetched, data, nodes, rootNodes, expandedNodes>>
    /\ UNCHANGED <<zoomT, zoomLevel, gesture, nodePos, ctxVars, mmVars>>

\* the transition ends: __zoom is the target; the zoom behaviour made in
\* the click handler has no 'zoom' listener, so the root group is not touched
RecenterEnd ==
    /\ recenter # NoRecenter
    /\ zoomT' = [k |-> recenter.k, x |-> recenter.x, y |-> recenter.y]
    /\ recenter' = NoRecenter
    /\ lastOp' = Op("recenterEnd", recenter.id, FALSE)
    /\ UNCHANGED <<gT, zoomLevel, gesture, nodePos, treeVars, ctxVars, mmVars>>

\* a flat list of documents
ViewInputs ==
    {d \in ClickInputs :
        \A i \in 1..Len(d) : d[i].parentId = 0 /\ d[i].type = "document"}

InitView ==
    /\ \E d \in ViewInputs : TreeLoaded(d)
    /\ CtxIdle
    /\ MinimapIdle
    /\ zoomT = Identity
    /\ gT = RootGroupTransform
    /\ zoomLevel = 100
    /\ recenter = NoRecenter
    /\ gesture = "none"
    /\ nodePos \in [1..ViewNodes -> PosGrid]

NextView ==
    \/ \E f \in {<<10, 1>>, <<1, 10>>} : Wheel(f[1], f[2])
    \/ WheelIdle
    \/ \E dx \in {-PanStep, PanStep} : Drag(dx, 0)
    \/ handleZoomIn
    \/ handleZoomOut
    \/ handleResetZoom
    \/ RenderAgain
    \/ \E n \in 1..ViewNodes : MinimapClick(n)
    \/ RecenterEnd

SpecView == InitView /\ [][NextView]_vars

\* the scale the diagram is shown at: the CSS scale of the container times
\* the scale of the root group
EffectiveScale == (zoomLevel * gT.k) \div 100

\* C3: after any sequence of zoom operations the scale applied to the
\* diagram is within [0.1, 3.0].
ScaleWithinExtent ==
    MinScale <= EffectiveScale /\ EffectiveScale <= MaxScale

\* where the root group transform t puts the laid-out position of node n
ScreenPos(t, n) ==
    [h |-> t.tx + (t.k * nodePos[n].y) \div 100,
     v |-> t.ty + (t.k * nodePos[n].x) \div 100]

\* C8: once the recenter transition has finished, the transform it applied
\* puts the clicked node within 1 pixel of the centre of the viewport.
MinimapRecentersNode ==
    lastOp.op = "recenterEnd" =>
        LET pos == ScreenPos(ZoomHandler(zoomT), lastOp.id)
        IN  /\ Abs(pos.h - width \div 2) <= 1
            /\ Abs(pos.v - height \div 2) <= 1

\* C15: a re-render leaves the transform of the diagram as the user's
\* panning and zooming left it.
RerenderKeepsTransform ==
    [][lastOp'.op = "render" => gT' = gT]_vars

\* C16: the recenter animation that finishes is the one requested last and
\* ends at its target, and it does not write the transform while a wheel
\* gesture is active.
RecenterLastWinsNoFight ==
    lastOp.op = "recenterEnd" =>
        /\ zoomT.k = RecenterTarget(lastOp.id).k
        /\ zoomT.x = RecenterTarget(lastOp.id).x
        /\ zoomT.y = RecenterTarget(lastOp.id).y
        /\ gesture = "none"

\* ----------------------------------------------------------------- minimap
MaxMinimapNodes == 3
minimapWidth == 150
minimapHeight == 100
minimapInset == 10

MmGrid == {[x |-> a, y |-> b] : a \in {-100, 0, 100}, b \in {0, 200, 400}}

MinOf(S) == CHOOSE m \in S : \A e \in S : m <= e
MaxOf(S) == CHOOSE m \in S : \A e \in S : m >= e

\* d3.extent(nodes, accessor)
Extent(vals) == [lo |-> MinOf(Range(vals)), hi |-> MaxOf(Range(vals))]

ScaleLinearMidAtStart(d0, d1, r0, r1, v) ==
    IF d1 = d0 THEN [num |-> r0, den |-> 1]
    ELSE [num |-> r0 * (d1 - d0) + (v - d0) * (r1 - r0), den |-> d1 - d0]

\* d3.scaleLinear().domain([d0, d1]).range([r0, r1]) at v, as the fraction
\* num/den; a domain of one value is sent to the middle of the range
ScaleLinear(d0, d1, r0, r1, v) ==
    IF d1 = d0 THEN [num |-> r0 + r1, den |-> 2]
    ELSE [num |-> r0 * (d1 - d0) + (v - d0) * (r1 - r0), den |-> d1 - d0]

\* the dots of createMinimap: one per node after the root
MinimapDots(ns) ==
    LET xExtent == Extent([i \in DOMAIN ns |-> ns[i].y])
        yExtent == Extent([i \in DOMAIN ns |-> ns[i].x])
    IN  [i \in 1..(Len(ns) - 1) |->
            [cx |-> ScaleLinear(xExtent.lo, xExtent.hi, minimapInset,
                                minimapWidth - minimapInset, ns[i + 1].y),
             cy |-> ScaleLinear(yExtent.lo, yExtent.hi, minimapInset,
                                minimapHeight - minimapInset, ns[i + 1].x)]]

\* node lists a layout can give: the root at depth 0 has y = 0, every
\* other node is deeper and has y > 0
MinimapInputs(n) ==
    {ns \in [1..n -> MmGrid] :
        ns[1].y = 0 /\ \A i \in 2..n : ns[i].y > 0}

createMinimap ==
    /\ mmDots' = MinimapDots(mmNodes)
    /\ lastOp' = Op("createMinimap", NoNode, FALSE)
    /\ UNCHANGED <<mmNodes, nodeFill, treeData, treeVars, ctxVars, viewVars>>
    /\ UNCHANGED <<domVars, nodePath, procVars>>

InitMinimap ==
    /\ TreeLoaded(<<>>)
    /\ CtxIdle
    /\ ViewIdle
    /\ \E n \in 2..MaxMinimapNodes : mmNodes \in MinimapInputs(n)
    /\ mmDots = <<>>
    /\ nodeFill = <<>>
    /\ treeData = <<>>
    /\ DomIdle
    /\ nodePath = NoPath
    /\ ProcIdle

NextMinimap == createMinimap

SpecMinimap == InitMinimap /\ [][NextMinimap]_vars

EqualsInt(r, c) == r.num = c * r.den

MmHoriz == {mmNodes[i].y : i \in DOMAIN mmNodes}
MmVert == {mmNodes[i].x : i \in DOMAIN mmNodes}

\* C9 as stated: on each axis the minimum of the node extent is drawn at 10
\* and the maximum at (minimap size - 10).
MinimapExtentToInset ==
    \A i \in DOMAIN mmDots :
        LET n == mmNodes[i + 1]
        IN  /\ n.y = MinOf(MmHoriz) => EqualsInt(mmDots[i].cx, 10)
            /\ n.y = MaxOf(MmHoriz) => EqualsInt(mmDots[i].cx, minimapWidth - 10)
            /\ n.x = MinOf(MmVert) => EqualsInt(mmDots[i].cy, 10)
            /\ n.x = MaxOf(MmVert) => EqualsInt(mmDots[i].cy, minimapHeight - 10)

\* C9 amended: on an axis whose extent has two different ends the minimum
\* is drawn at 10 and the maximum at (minimap size - 10), and positions in
\* between are interpolated linearly; on an axis where all nodes share one
\* coordinate every dot is drawn at the middle, size / 2.
MinimapExtentToInsetOrMiddle ==
    \A i \in DOMAIN mmDots :
        LET n == mmNodes[i + 1]
            h0 == MinOf(MmHoriz)
            h1 == MaxOf(MmHoriz)
            v0 == MinOf(MmVert)
            v1 == MaxOf(MmVert)
            cx == mmDots[i].cx
            cy == mmDots[i].cy
        IN  /\ h0 < h1 =>
                (cx.num - 10 * cx.den) * (h1 - h0)
                    = (n.y - h0) * (minimapWidth - 20) * cx.den
            /\ h0 = h1 => 2 * cx.num = minimapWidth * cx.den
            /\ v0 < v1 =>
                (cy.num - 10 * cy.den) * (v1 - v0)
                    = (n.x - v0) * (minimapHeight - 20) * cy.den
            /\ v0 = v1 => 2 * cy.num = minimapHeight * cy.den

\* extent x in [0,400], y in [-100,100]: the node at (400,100) is drawn at
\* (140,90), the node at (200,-100) at (75,10)
MinimapScenarioC ==
    /\ Len(mmDots) = 2
    /\ MinOf(MmHoriz) = 0 /\ MaxOf(MmHoriz) = 400
    /\ MinOf(MmVert) = -100 /\ MaxOf(MmVert) = 100
    /\ mmNodes[2] = [x |-> -100, y |-> 200]
    /\ EqualsInt(mmDots[1].cx, 75) /\ EqualsInt(mmDots[1].cy, 10)
    /\ mmNodes[3] = [x |-> 100, y |-> 400]
    /\ EqualsInt(mmDots[2].cx, 140) /\ EqualsInt(mmDots[2].cy, 90)

\* -------------------------------- expandAll, collapseAll and expandToLevel
MaxLevel == 3

\* node.type === 'folder' over state.nodes
FolderIds(ns) == {id \in DOMAIN ns : ns[id].type = "folder"}

\* expandAll: every folder of state.nodes is added to the set as it is
expandAllSet(ns, old) == old \cup FolderIds(ns)

\* expandToLevelRecursive(nodeIds, currentLevel): acc is state.expandedNodes
RECURSIVE expandToLevelRecursive(_, _, _, _, _)
expandToLevelRecursive(ns, nodeIds, currentLevel, level, acc) ==
    IF currentLevel >= level \/ nodeIds = <<>> THEN acc
    ELSE LET nodeId == Head(nodeIds)
             isFolder == nodeId \in DOMAIN ns /\ ns[nodeId].type = "folder"
             acc1 == IF isFolder
                     THEN expandToLevelRecursive(ns, ns[nodeId].children,
                              currentLevel + 1, level, acc \cup {nodeId})
                     ELSE acc
         IN  expandToLevelRecursive(ns, Tail(nodeIds), currentLevel, level, acc1)

expandToLevelKeepsOld(ns, roots, level, old) ==
    expandToLevelRecursive(ns, roots, 0, level, old)

\* expandToLevel: state.expandedNodes.clear(), then the walk from rootNodes
expandToLevelSet(ns, roots, level, old) ==
    expandToLevelRecursive(ns, roots, 0, level, {})

\* a bulk expansion action followed by the render effect; arg is the level
\* of expandToLevel
LevelStep(name, arg, newExpanded) ==
    /\ expandedNodes' = newExpanded
    /\ frame' = renderEffect(data, newExpanded, frame)
    /\ prevExpanded' = expandedNodes
    /\ prevSelected' = selectedNodes
    /\ runLen' = 0
    /\ rt' = NoRt
    /\ lastOp' = Op(name, arg, FALSE)
    /\ UNCHANGED <<dbRows, fetched, data, nodes, rootNodes, selectedNodes, focusedNode>>
    /\ UNCHANGED <<ctxVars, viewVars, mmVars>>

expandAll == LevelStep("expandAll", NoNode, expandAllSet(nodes, expandedNodes))

collapseAll == LevelStep("collapseAll", NoNode, {})

expandToLevel(level) ==
    LevelStep("expandToLevel", level,
              expandToLevelSet(nodes, rootNodes, level, expandedNodes))

\* forests with and without empty folders
LevelInputs == {Forest(p, allFolders) : p \in ForestParents, allFolders \in BOOLEAN}

InitLevels ==
    /\ \E d \in LevelInputs : TreeLoaded(d)
    /\ CtxIdle
    /\ ViewIdle
    /\ MinimapIdle

NextLevels ==
    \/ \E id \in Ids : expandNode(id)
    \/ expandAll
    \/ collapseAll
    \/ \E level \in 0..MaxLevel : expandToLevel(level)

SpecLevels == InitLevels /\ [][NextLevels]_vars

\* depth of a document: the number of its proper ancestors (roots at 0)
Depth(d, id) == Cardinality(Ancestors(d, id, Len(d)))

\* C12: after expandAll the expandedNodes set is exactly the set of ids of
\* the folder-kind nodes (the synthetic root, a folder that is not in the
\* store, may be in it or not), and after collapseAll it is empty.
ExpandAllExact ==
    /\ lastOp.op = "expandAll" => expandedNodes \ {RootId} = FolderIds(nodes)
    /\ lastOp.op = "collapseAll" => expandedNodes = {}

includeMultipleSets(c, ids) ==
    [included |-> c.included \cup ids, pinned |-> c.pinned,
     excluded |-> c.excluded \ ids]

excludeMultipleSets(c, ids) ==
    [included |-> c.included \ ids, pinned |-> c.pinned \ ids,
     excluded |-> c.excluded \cup ids]

\* applySuggestion: the suggested node is added to includedNodes only
applySuggestionSets(c, id) ==
    [included |-> c.included \cup {id}, pinned |-> c.pinned,
     excluded |-> c.excluded]

optimizeContextDropsPinned(c, popped) ==
    [included |-> c.included \ popped, pinned |-> c.pinned,
     excluded |-> c.excluded]

\* optimizeContext over the limit: Math.ceil(length * 0.2) ids are popped
\* from the end of Array.from(includedNodes), each deleted unless pinned;
\* popped is the set of popped ids
optimizeContextSets(c, popped) ==
    [included |-> c.included \ (popped \ c.pinned), pinned |-> c.pinned,
     excluded |-> c.excluded]

\* Math.ceil(n * 0.2)
CeilFifth(n) == (n + 4) \div 5

\* the sequences that list every element of S once
Orderings(S) ==
    {q \in [1..Cardinality(S) -> S] : \A i, j \in DOMAIN q : i # j => q[i] # q[j]}

RemoveAt(q, i) == [j \in 1..(Len(q) - 1) |-> IF j < i THEN q[j] ELSE q[j + 1]]

\* a context action that may also change the suggestions or the saved session
CtxOpStep(name, id, new, newSuggestions, newSaved) ==
    /\ includedNodes' = new.included
    /\ pinnedNodes' = new.pinned
    /\ excludedNodes' = new.excluded
    /\ prevCtx' = Ctx
    /\ cycleRun' = NoRun
    /\ suggestions' = newSuggestions
    /\ savedSession' = newSaved
    /\ lastOp' = Op(name, id, FALSE)
    /\ UNCHANGED <<treeVars, viewVars, mmVars>>

includeMultiple(ids) ==
    CtxOpStep("includeMultiple", NoNode, includeMultipleSets(Ctx, ids),
              suggestions, savedSession)

excludeMultiple(ids) ==
    CtxOpStep("excludeMultiple", NoNode, excludeMultipleSets(Ctx, ids),
              suggestions, savedSession)

clearContext ==
    CtxOpStep("clearContext", NoNode, EmptyCtx, suggestions, savedSession)

saveSession == CtxOpStep("saveSession", NoNode, Ctx, suggestions, Ctx)

\* loadSession(currentSession.id): the saved copy, when there is one
loadSession ==
    CtxOpStep("loadSession", NoNode,
              IF savedSession = NoSession THEN Ctx ELSE savedSession,
              suggestions, savedSession)

\* generateSuggestions(nodes): the nodes neither included nor excluded, in
\* the order of their random confidence (at most five; ns has fewer)
generateSuggestions(ns) ==
    \E q \in Orderings(ns \ (includedNodes \cup excludedNodes)) :
        CtxOpStep("generateSuggestions", NoNode, Ctx, q, savedSession)

\* applySuggestion(index), index counted from 1 here
applySuggestion(index) ==
    IF index \in DOMAIN suggestions
    THEN CtxOpStep("applySuggestion", suggestions[index],
                   applySuggestionSets(Ctx, suggestions[index]),
                   RemoveAt(suggestions, index), savedSession)
    ELSE CtxOpStep("applySuggestion", NoNode, Ctx, suggestions, savedSession)

\* optimizeContext; overLimit is tokenUsage.current > tokenUsage.limit, and
\* the popped ids are the last inserted ones, an order the sets here do not
\* keep: any ids of the right number
optimizeContext(overLimit) ==
    IF ~overLimit
    THEN CtxOpStep("optimizeContext", NoNode, Ctx, suggestions, savedSession)
    ELSE \E popped \in SUBSET includedNodes :
            /\ Cardinality(popped) = CeilFifth(Cardinality(includedNodes))
            /\ CtxOpStep("optimizeContext", NoNode,
                         optimizeContextSets(Ctx, popped),
                         suggestions, savedSession)

InitCtxOps ==
    /\ \E d \in ViewInputs : TreeLoaded(d)
    /\ CtxIdle
    /\ ViewIdle
    /\ MinimapIdle

NextCtxOps ==
    \/ \E id \in CtxIds : includeNode(id)
    \/ \E id \in CtxIds : excludeNode(id)
    \/ \E id \in CtxIds : pinNode(id)
    \/ \E id \in CtxIds : unpinNode(id)
    \/ \E id \in CtxIds : removeFromContext(id)
    \/ \E ids \in SUBSET CtxIds : includeMultiple(ids)
    \/ \E ids \in SUBSET CtxIds : excludeMultiple(ids)
    \/ clearContext
    \/ saveSession
    \/ loadSession
    \/ \E ns \in SUBSET CtxIds : generateSuggestions(ns)
    \/ \E index \in 1..MaxCtxId : applySuggestion(index)
    \/ \E overLimit \in BOOLEAN : optimizeContext(overLimit)

SpecCtxOps == InitCtxOps /\ [][NextCtxOps]_vars

\* C14: every node id has exactly one context flag; no id is in
\* excludedNodes while also in includedNodes or pinnedNodes.
OneFlagPerNode ==
    excludedNodes \cap (includedNodes \cup pinnedNodes) = {}

\* the operations on the sets of the current session and its saved copy
NextPins ==
    \/ \E id \in CtxIds : includeNode(id)
    \/ \E id \in CtxIds : excludeNode(id)
    \/ \E id \in CtxIds : pinNode(id)
    \/ \E id \in CtxIds : unpinNode(id)
    \/ \E id \in CtxIds : removeFromContext(id)
    \/ \E ids \in SUBSET CtxIds : includeMultiple(ids)
    \/ \E ids \in SUBSET CtxIds : excludeMultiple(ids)
    \/ clearContext
    \/ saveSession
    \/ loadSession
    \/ \E overLimit \in BOOLEAN : optimizeContext(overLimit)

SpecPins == InitCtxOps /\ [][NextPins]_vars

\* C25: every pinned node is an included node.
PinnedAreIncluded == pinnedNodes \subseteq includedNodes

\* optimizeContext removed an included node and kept the pinned ones
OptimizedAroundPinned ==
    /\ lastOp.op = "optimizeContext"
    /\ pinnedNodes # {}
    /\ pinnedNodes = prevCtx.pinned
    /\ includedNodes # prevCtx.included

\* ------------------------------------------------------------ node colours
getNodeColorIncludedFirst(c, type, id) ==
    IF id \in c.included THEN "#10b981"
    ELSE IF id \in c.pinned THEN "#f59e0b"
    ELSE IF id \in c.excluded THEN "#ef4444"
    ELSE IF type = "folder" THEN "#6366f1"
    ELSE "#8b5cf6"

\* getNodeColor, c being the context sets of the render
getNodeColor(c, type, id) ==
    IF id \in c.pinned THEN "#f59e0b"
    ELSE IF id \in c.included THEN "#10b981"
    ELSE IF id \in c.excluded THEN "#ef4444"
    ELSE IF type = "folder" THEN "#6366f1"
    ELSE "#8b5cf6"

\* .attr('fill', d => getNodeColor(d.data)) over the nodes of the frame
FillNodes ==
    /\ nodeFill' = [n \in Range(frame.nodes) |->
                       getNodeColor(Ctx, TypeOf(data, n), n)]
    /\ lastOp' = Op("fill", NoNode, FALSE)
    /\ UNCHANGED <<mmNodes, mmDots, treeData, treeVars, ctxVars, viewVars>>
    /\ UNCHANGED <<domVars, nodePath, procVars>>

\* every combination of memberships in the three sets
InitColor ==
    /\ \E d \in ClickInputs : TreeLoaded(d)
    /\ includedNodes \in SUBSET CtxIds
    /\ pinnedNodes \in SUBSET CtxIds
    /\ excludedNodes \in SUBSET CtxIds
    /\ prevCtx = EmptyCtx
    /\ cycleRun = NoRun
    /\ suggestions = <<>>
    /\ savedSession = NoSession
    /\ ViewIdle
    /\ MinimapIdle

NextColor == FillNodes

SpecColor == InitColor /\ [][NextColor]_vars

\* C18: the fill of a node is that of the first rule that matches, in the
\* order pinned, included, excluded, folder, document.
ColorPrecedence ==
    \A n \in DOMAIN nodeFill :
        LET p == n \in pinnedNodes
            i == n \in includedNodes
            e == n \in excludedNodes
            f == n = RootId \/ data[n].type = "folder"
        IN  /\ p => nodeFill[n] = "#f59e0b"
            /\ (~p /\ i) => nodeFill[n] = "#10b981"
            /\ (~p /\ ~i /\ e) => nodeFill[n] = "#ef4444"
            /\ (~p /\ ~i /\ ~e /\ f) => nodeFill[n] = "#6366f1"
            /\ (~p /\ ~i /\ ~e /\ ~f) => nodeFill[n] = "#8b5cf6"

\* a node in all three sets is amber, one that is only excluded is red, and
\* a folder and a document in no set have their own colours
ColoredEveryRule ==
    /\ \E n \in DOMAIN nodeFill :
          /\ n \in pinnedNodes \cap includedNodes \cap excludedNodes
          /\ nodeFill[n] = "#f59e0b"
    /\ \E n \in DOMAIN nodeFill :
          /\ n \in excludedNodes \ (pinnedNodes \cup includedNodes)
          /\ nodeFill[n] = "#ef4444"
    /\ \E n, m \in DOMAIN nodeFill :
          nodeFill[n] = "#6366f1" /\ nodeFill[m] = "#8b5cf6"

\* ------------------------------------------------------------ sibling order
MaxName == 2

\* query results: rows in any order of their names
OrderInputs ==
    {Rows(p, [i \in DocIds |-> IF HasChild(p, i) THEN "folder" ELSE "document"],
          names) : p \in ForestParents, names \in [DocIds -> 1..MaxName]}

\* DocumentService.getAllDocuments: the rows of the query are mapped and
\* the list is what the page's useQuery receives
getAllDocuments ==
    /\ dbRows # <<>>
    /\ fetched' = mapRowsToDocuments(dbRows)
    /\ lastOp' = Op("getAllDocuments", NoNode, FALSE)
    /\ UNCHANGED <<dbRows, data, nodes, rootNodes, expandedNodes, selectedNodes,
                   focusedNode, frame, prevExpanded, prevSelected, runLen, rt>>
    /\ UNCHANGED <<ctxVars, viewVars, mmVars>>

InitOrder ==
    /\ dbRows \in OrderInputs
    /\ fetched = <<>>
    /\ data = <<>>
    /\ nodes = <<>>
    /\ rootNodes = <<>>
    /\ expandedNodes = {}
    /\ selectedNodes = {}
    /\ focusedNode = NoNode
    /\ frame = EmptyFrame
    /\ lastOp = Op("init", NoNode, FALSE)
    /\ prevExpanded = {}
    /\ prevSelected = {}
    /\ runLen = 0
    /\ rt = NoRt
    /\ CtxIdle
    /\ ViewIdle
    /\ MinimapIdle

NextOrder == getAllDocuments \/ LoadDocuments

SpecOrder == InitOrder /\ [][NextOrder]_vars

\* the ids of s are in the order of the input list (rows[i].id = i)
InInputOrder(s) == \A i, j \in DOMAIN s : i < j => s[i] < s[j]

\* the ids of s are in the order of their names, equal names in input order
InNameOrder(rs, s) ==
    \A i, j \in DOMAIN s : i < j =>
        \/ rs[s[i]].name < rs[s[j]].name
        \/ rs[s[i]].name = rs[s[j]].name /\ s[i] < s[j]

\* the original statement of C19: the children of every parent are listed
\* in input order
SiblingsInInputOrder ==
    (lastOp.op = "load" /\ data # <<>>) =>
        \A n \in Range(frame.nodes) : InInputOrder(FrameKids(frame, n))

\* C19: the children of the synthetic root are listed in input order, and
\* the children of every other node are listed by name, equal names in
\* input order; the order is a function of the input, so two builds over
\* the same input give the same sibling order.
SiblingsByNameBelowTop ==
    (lastOp.op = "load" /\ data # <<>>) =>
        /\ InInputOrder(FrameKids(frame, RootId))
        /\ \A n \in Range(frame.nodes) \ {RootId} :
              /\ InNameOrder(dbRows, FrameKids(frame, n))
              /\ Range(FrameKids(frame, n))
                    = {i \in DocIds : dbRows[i].parent_id = n}

\* a node whose two children come out in the reverse of their input order,
\* below a top level that is out of name order and kept as it came
ChildrenReordered ==
    /\ lastOp.op = "load"
    /\ data # <<>>
    /\ \E n \in Range(frame.nodes) \ {RootId} :
          LET kids == FrameKids(frame, n)
          IN  Len(kids) = 2 /\ kids[1] > kids[2]
    /\ LET top == FrameKids(frame, RootId)
       IN  Len(top) = 2 /\ dbRows[top[1]].name > dbRows[top[2]].name

\* -------------------------------------------------------------- tree layout
\* d3.tree() places the nodes by the tidy-tree algorithm of d3-hierarchy:
\* a subtree is set right of its left siblings by the separation of the two
\* nodes that come closest at any depth, and a parent is centred over its
\* first and last child.  Coordinates are whole multiples of 1/Unit px, so
\* that every midpoint is exact; a final position is an exact fraction.
\* A name is modelled by an integer n standing for a string of n letters.
\* With at most MaxNodes documents and names of at most MaxName letters a
\* subtree is pushed by its left neighbour only, so the spreading of
\* siblings that lie between two colliding subtrees never applies.
Unit == 2 ^ (MaxNodes + 1)

\* the datum of hierarchy node id; the root is { id: 'root', name: 'Root' }
NodeOf(d, id) ==
    IF id = RootId
    THEN [id |-> RootId, name |-> 4, type |-> "folder", parentId |-> 0,
          children |-> TopLevel(d)]
    ELSE d[id]

getNodeWidthBySelection(node) ==
    node.name * 8 + 40 + (IF node.id \in selectedNodes THEN 8 ELSE 0)

\* node.name.length * 8 + 40
getNodeWidth(node) == node.name * 8 + 40

\* .separation((a, b) => (aWidth + bWidth) / 2 + 20)
separation(a, b) == (getNodeWidth(a) + getNodeWidth(b)) \div 2 + 20

\* A placement gives each node of a subtree its x relative to the subtree's
\* root and its depth below it.
AtDepth(P, l) == {n \in DOMAIN P : P[n].dep = l}

RightMost(P, l) ==
    CHOOSE n \in AtDepth(P, l) : \A m \in AtDepth(P, l) : P[m].x <= P[n].x

LeftMost(P, l) ==
    CHOOSE n \in AtDepth(P, l) : \A m \in AtDepth(P, l) : P[m].x >= P[n].x

Height(P) == MaxOf({P[n].dep : n \in DOMAIN P})

Merge(P, Q) ==
    [n \in DOMAIN P \cup DOMAIN Q |-> IF n \in DOMAIN P THEN P[n] ELSE Q[n]]

Shifted(P, dx, dd) ==
    [n \in DOMAIN P |-> [x |-> P[n].x + dx, dep |-> P[n].dep + dd]]

\* apportion: how far right of the placed siblings F the subtree Q goes, the
\* largest of what the two contours ask for at the depths they share
apportion(d, F, Q) ==
    LET need(l) ==
            LET vim == RightMost(F, l)
                vip == LeftMost(Q, l)
            IN  F[vim].x + separation(NodeOf(d, vim), NodeOf(d, vip)) * Unit
                    - Q[vip].x
    IN  MaxOf({need(l) : l \in 0..Min2(Height(F), Height(Q))})

RECURSIVE firstWalk(_, _, _)
RECURSIVE placeChildren(_, _, _, _)
\* the children kids, left to right, joined to the placed siblings F
placeChildren(d, kidsOf, kids, F) ==
    IF kids = <<>> THEN F
    ELSE LET Q == firstWalk(d, kidsOf, Head(kids))
             off == IF DOMAIN F = {} THEN 0 ELSE apportion(d, F, Q)
         IN  placeChildren(d, kidsOf, Tail(kids), Merge(F, Shifted(Q, off, 0)))

\* firstWalk and secondWalk: the placement of the subtree of id
firstWalk(d, kidsOf, id) ==
    LET kids == kidsOf[id]
        self == [n \in {id} |-> [x |-> 0, dep |-> 0]]
    IN  IF kids = <<>> THEN self
        ELSE LET F == placeChildren(d, kidsOf, kids, <<>>)
                 midpoint == (F[kids[1]].x + F[kids[Len(kids)]].x) \div 2
             IN  Merge(self, Shifted(F, -midpoint, 1))

\* root.eachBefore: the nodes in pre-order
RECURSIVE eachBefore(_, _, _)
eachBefore(kidsOf, stack, acc) ==
    IF stack = <<>> THEN acc
    ELSE eachBefore(kidsOf, kidsOf[Head(stack)] \o Tail(stack),
                    Append(acc, Head(stack)))

RECURSIVE GCD(_, _)
GCD(a, b) == IF b = 0 THEN a ELSE GCD(b, a % b)

\* the exact quotient n / m, m > 0, n >= 0, in lowest terms
Frac(n, m) == [num |-> n \div GCD(n, m), den |-> m \div GCD(n, m)]

\* treeLayout(root) with size([innerHeight, innerWidth]): the placement is
\* moved and scaled so that the leftmost and rightmost node keep half their
\* separation to the borders, and depth is spread over the width
treeLayout(d, kidsOf) ==
    LET P == firstWalk(d, kidsOf, RootId)
        order == eachBefore(kidsOf, <<RootId>>, <<>>)
        First(v) == order[CHOOSE i \in DOMAIN order :
                        /\ P[order[i]].x = v
                        /\ \A j \in 1..(i - 1) : P[order[j]].x # v]
        left == First(MinOf({P[n].x : n \in DOMAIN P}))
        right == First(MaxOf({P[n].x : n \in DOMAIN P}))
        bottom == Height(P)
        s == IF left = right THEN Unit
             ELSE (separation(NodeOf(d, left), NodeOf(d, right)) * Unit) \div 2
        tx == s - P[left].x
    IN  [n \in DOMAIN P |->
            [x |-> Frac((P[n].x + tx) * innerHeight, P[right].x + s + tx),
             y |-> Frac(P[n].dep * innerWidth,
                        IF bottom = 0 THEN 1 ELSE bottom)]]

\* (d) => d.children over the whole list: d3.hierarchy(root, d => d.children)
HierarchyKids(d) == [id \in {RootId} \cup DOMAIN d |-> ChildIds(d, id)]

\* the hierarchy without the subtrees of the nodes that are not expanded
VisibleKids(d, expanded) ==
    [id \in {RootId} \cup DOMAIN d |->
        CollapseChildren(ChildIds(d, id), id \in expanded)]

\* trees in which at most one document has a longer name than the others
LayoutInputs ==
    {mapRowsToDocuments(Rows(p,
        [i \in DocIds |-> IF HasChild(p, i) THEN "folder" ELSE "document"],
        [i \in DocIds |-> IF i = j THEN n ELSE 1])) :
            p \in ForestParents, j \in DocIds, n \in 1..MaxName}

LayoutIds == {RootId, 1}

\* a store update followed by the run of the render effect it causes (all
\* of the sets are dependencies): hierarchy, layout, collapse handling
RenderStep(op, newExpanded, newSelected, new) ==
    /\ expandedNodes' = newExpanded
    /\ selectedNodes' = newSelected
    /\ includedNodes' = new.included
    /\ pinnedNodes' = new.pinned
    /\ excludedNodes' = new.excluded
    /\ treeData' = treeLayout(data, HierarchyKids(data))
    /\ frame' = renderEffect(data, newExpanded, frame)
    /\ lastOp' = op
    /\ prevExpanded' = expandedNodes
    /\ prevSelected' = selectedNodes
    /\ prevCtx' = Ctx
    /\ runLen' = 0
    /\ rt' = NoRt
    /\ cycleRun' = NoRun
    /\ UNCHANGED <<dbRows, fetched, data, nodes, rootNodes, focusedNode>>
    /\ UNCHANGED <<suggestions, savedSession, viewVars>>
    /\ UNCHANGED <<mmNodes, mmDots, nodeFill, domVars, nodePath, procVars>>

ToggleAndLayout(id) ==
    RenderStep(Op("toggleExpansion", id, FALSE),
               ToggleSet(expandedNodes, id), selectedNodes, Ctx)

SelectAndLayout(id) ==
    RenderStep(Op("selectNode", id, FALSE), expandedNodes,
               SelectSet(selectedNodes, id, FALSE), Ctx)

IncludeAndLayout(id) ==
    RenderStep(Op("includeNode", id, FALSE), expandedNodes, selectedNodes,
               includeNodeSets(Ctx, id))

InitLayout ==
    /\ \E d \in LayoutInputs :
          /\ TreeLoaded(d)
          /\ treeData = treeLayout(d, HierarchyKids(d))
    /\ CtxIdle
    /\ ViewIdle
    /\ mmNodes = <<>>
    /\ mmDots = <<>>
    /\ nodeFill = <<>>
    /\ DomIdle
    /\ nodePath = NoPath
    /\ ProcIdle

NextLayout ==
    \/ \E id \in LayoutIds : ToggleAndLayout(id)
    \/ \E id \in LayoutIds : SelectAndLayout(id)
    \/ IncludeAndLayout(1)

SpecLayout == InitLayout /\ [][NextLayout]_vars

LayoutOfVisiblePart ==
    lastOp.op = "toggleExpansion" =>
        LET visible == treeLayout(data, VisibleKids(data, expandedNodes))
        IN  \A n \in DOMAIN visible : treeData[n] = visible[n]

\* ------------------------------------------------- data joins, transitions
MaxRenders == 3

\* document lists of which the later documents may have a parent_id that no
\* document of the list has: such a document is in no hierarchy
JoinInputs ==
    {mapRowsToDocuments(Rows(p,
        [i \in DocIds |-> IF HasChild(p, i) THEN "folder" ELSE "document"],
        [i \in DocIds |-> 1])) :
            p \in {q \in HierParents :
                      /\ q[1] = 0
                      /\ q[2] \in {0, 1}
                      /\ \A i \in DocIds \ {1, 2} : q[i] \in {0, UnknownId}}}

ElementIds(els) == {e.id : e \in els}

\* selection.data(nodes, d => d.data.id) over the elements sel: the update
\* and exit selections are elements, the enter selection is data
DataJoin(sel, ids) ==
    [before |-> ElementIds(sel),
     enter |-> ids \ ElementIds(sel),
     update |-> {e \in sel : e.id \in ids},
     exit |-> {e \in sel : e.id \notin ids}]

\* One run of the render effect over the frame fr, as element el-th run:
\* svg.selectAll("*").remove() empties the svg, the node group is appended
\* anew, and nodeGroup.selectAll('.node') selects what the new group holds.
\* Entered and updated elements start the 500ms transition, exiting ones the
\* 300ms transition that ends with .remove(); a transition that starts on
\* an element replaces the one running on that element.  Transitions on
\* elements that were removed from the svg are not interrupted.
RenderNodes(fr, el) ==
    LET cleared == {}
        sel == cleared
        join == DataJoin(sel, Range(fr.nodes))
        entered == {[id |-> n, el |-> el] : n \in join.enter}
        started == {[id |-> e.id, el |-> e.el, exit |-> FALSE] :
                        e \in entered \cup join.update}
                   \cup {[id |-> e.id, el |-> e.el, exit |-> TRUE] :
                        e \in join.exit}
        Replaced(t) == \E n \in started : n.id = t.id /\ n.el = t.el
    IN  /\ svgNodes' = sel \cup entered
        /\ running' = {t \in running : ~Replaced(t)} \cup started
        /\ joined' = [before |-> ElementIds(svgNodes),
                      enter |-> join.enter,
                      update |-> ElementIds(join.update),
                      exit |-> ElementIds(join.exit)]
        /\ renderNo' = el

\* toggleExpansion(id) and the run of the effect that it causes
ToggleAndRender(id) ==
    /\ renderNo < MaxRenders
    /\ expandedNodes' = ToggleSet(expandedNodes, id)
    /\ frame' = renderEffect(data, ToggleSet(expandedNodes, id), frame)
    /\ RenderNodes(renderEffect(data, ToggleSet(expandedNodes, id), frame),
                   renderNo + 1)
    /\ lastOp' = Op("toggleExpansion", id, FALSE)
    /\ prevExpanded' = expandedNodes
    /\ prevSelected' = selectedNodes
    /\ runLen' = 0
    /\ rt' = NoRt
    /\ UNCHANGED <<dbRows, fetched, data, nodes, rootNodes, selectedNodes,
                   focusedNode>>
    /\ UNCHANGED <<ctxVars, viewVars>>
    /\ UNCHANGED <<mmNodes, mmDots, nodeFill, treeData, nodePath, procVars>>

\* the documents query returns the list d: setNodes(d) and the run of the
\* effect for the new data
ReloadAndRender(d) ==
    /\ renderNo < MaxRenders
    /\ fetched' = d
    /\ data' = d
    /\ nodes' = setNodesMap(d)
    /\ rootNodes' = setNodesRoots(d)
    /\ frame' = renderEffect(d, expandedNodes, frame)
    /\ RenderNodes(renderEffect(d, expandedNodes, frame), renderNo + 1)
    /\ lastOp' = Op("load", NoNode, FALSE)
    /\ prevExpanded' = expandedNodes
    /\ prevSelected' = selectedNodes
    /\ runLen' = 0
    /\ rt' = NoRt
    /\ UNCHANGED <<dbRows, expandedNodes, selectedNodes, focusedNode>>
    /\ UNCHANGED <<ctxVars, viewVars>>
    /\ UNCHANGED <<mmNodes, mmDots, nodeFill, treeData, nodePath, procVars>>

\* the transitions of the oldest run that still has some reach their end
\* (all of a run start together and have the same duration per kind); an
\* exit transition removes its element
TransitionsEnd ==
    /\ running # {}
    /\ LET el == CHOOSE e \in {t.el : t \in running} :
                     \A t \in running : e <= t.el
           ended == {t \in running : t.el = el}
       IN  /\ running' = running \ ended
           /\ svgNodes' = {e \in svgNodes :
                  [id |-> e.id, el |-> e.el, exit |-> TRUE] \notin ended}
    /\ lastOp' = Op("transitionEnd", NoNode, FALSE)
    /\ UNCHANGED <<joined, renderNo, treeVars, ctxVars, viewVars>>
    /\ UNCHANGED <<mmNodes, mmDots, nodeFill, treeData, nodePath, procVars>>

\* the page after the first run of the effect over the loaded list
InitJoin ==
    /\ \E d \in JoinInputs :
          /\ TreeLoaded(d)
          /\ svgNodes = {[id |-> n, el |-> 1] : n \in Range(frame.nodes)}
          /\ running = {[id |-> n, el |-> 1, exit |-> FALSE] :
                            n \in Range(frame.nodes)}
          /\ joined = [NoJoin EXCEPT !.enter = Range(frame.nodes)]
    /\ renderNo = 1
    /\ CtxIdle
    /\ ViewIdle
    /\ mmNodes = <<>>
    /\ mmDots = <<>>
    /\ nodeFill = <<>>
    /\ treeData = <<>>
    /\ nodePath = NoPath
    /\ ProcIdle

NextJoin ==
    \/ ToggleAndRender(1)
    \/ \E d \in JoinInputs : ReloadAndRender(d)
    \/ TransitionsEnd

SpecJoin == InitJoin /\ [][NextJoin]_vars

RenderOps == {"toggleExpansion", "load"}

\* C21: in a render pass every id of the previous or the new frame is in
\* exactly one of the selections: entering when only in the new frame,
\* updating when in both, exiting when only in the previous one.
JoinClassifiesByPresence ==
    lastOp.op \in RenderOps =>
        LET new == Range(frame.nodes)
        IN  /\ joined.enter = new \ joined.before
            /\ joined.update = new \cap joined.before
            /\ joined.exit = joined.before \ new

\* C22: a render pass removes no node element: an element leaves the render
\* set only when its exit transition ends.
ExitingStaysUntilTransitionEnds ==
    [][lastOp'.op \in RenderOps
          => ElementIds(svgNodes) \subseteq ElementIds(svgNodes')]_vars

\* C23: every link of a frame joins a child and its parent that both have
\* an element in the svg, and a document whose parent is not in the list
\* has no link.
LinksJoinRenderedNodes ==
    lastOp.op \in RenderOps =>
        /\ \A t \in Range(frame.links) :
              /\ t \in ElementIds(svgNodes)
              /\ \E m \in ElementIds(svgNodes) :
                    m \in Range(frame.nodes) /\ t \in Range(FrameKids(frame, m))
        /\ \A i \in DOMAIN data :
              Unresolved(data, i) => data[i].id \notin Range(frame.links)

\* a frame of a list with a document that has no resolvable parent, drawn
\* with links on two levels
LinkedFrameWithOrphan ==
    /\ lastOp.op = "load"
    /\ \E i \in DOMAIN data : Unresolved(data, i)
    /\ \E t \in Range(frame.links) : data[t].parentId # 0

\* C24: no two transitions run at once for the same node id.
OneTransitionPerNode ==
    \A t, u \in running : t.id = u.id => t = u

\* ------------------------------------------ treeStore: the node collection
StoreIds == 1..MaxClickId

\* the nodes handed to addNode: a document with or without a parent
StoreNode(id, parent) ==
    [id |-> id, name |-> 1, type |-> "document", parentId |-> parent,
     children |-> <<>>]

StoreState == [nodes |-> nodes, rootNodes |-> rootNodes,
               expanded |-> expandedNodes, selected |-> selectedNodes,
               focused |-> focusedNode]

\* Map.set(id, node)
MapSet(m, id, node) ==
    [k \in DOMAIN m \cup {id} |-> IF k = id THEN node ELSE m[k]]

\* Map.delete(id)
MapDelete(m, id) == [k \in DOMAIN m \ {id} |-> m[k]]

\* rootNodes.filter((nodeId) => nodeId !== id)
FilterOut(s, id) ==
    LET Other(x) == x # id
    IN  SelectSeq(s, Other)

\* addNode: nodes.set(node.id, node), and a push when it has no parentId
addNodeState(st, node) ==
    [st EXCEPT !.nodes = MapSet(st.nodes, node.id, node),
               !.rootNodes = IF node.parentId = 0
                             THEN Append(st.rootNodes, node.id)
                             ELSE st.rootNodes]

\* updateNode: Object.assign(node, updates) when the map has the id; the
\* updates are a new parentId
updateNodeState(st, id, parent) ==
    IF id \notin DOMAIN st.nodes THEN st
    ELSE [st EXCEPT !.nodes[id].parentId = parent]

removeNodeKeepsSelected(st, id) ==
    [st EXCEPT !.nodes = MapDelete(st.nodes, id),
               !.rootNodes = FilterOut(st.rootNodes, id),
               !.expanded = st.expanded \ {id},
               !.focused = IF st.focused = id THEN NoNode ELSE st.focused]

\* removeNode
removeNodeState(st, id) ==
    [st EXCEPT !.nodes = MapDelete(st.nodes, id),
               !.rootNodes = FilterOut(st.rootNodes, id),
               !.expanded = st.expanded \ {id},
               !.selected = st.selected \ {id},
               !.focused = IF st.focused = id THEN NoNode ELSE st.focused]

\* a store update and the run of the render effect that follows it
StoreStep(name, id, new) ==
    /\ nodes' = new.nodes
    /\ rootNodes' = new.rootNodes
    /\ expandedNodes' = new.expanded
    /\ selectedNodes' = new.selected
    /\ focusedNode' = new.focused
    /\ frame' = renderEffect(data, new.expanded, frame)
    /\ prevExpanded' = expandedNodes
    /\ prevSelected' = selectedNodes
    /\ runLen' = 0
    /\ rt' = NoRt
    /\ lastOp' = Op(name, id, FALSE)
    /\ UNCHANGED <<dbRows, fetched, data>>
    /\ UNCHANGED <<ctxVars, viewVars, mmVars>>

\* setNodes(nodes) with the list the page holds
setNodes ==
    StoreStep("setNodes", NoNode,
              [StoreState EXCEPT !.nodes = setNodesMap(data),
                                 !.rootNodes = setNodesRoots(data)])

addNode(node) ==
    /\ Len(rootNodes) <= MaxNodes
    /\ StoreStep("addNode", node.id, addNodeState(StoreState, node))

updateNode(id, parent) ==
    StoreStep("updateNode", id, updateNodeState(StoreState, id, parent))

removeNode(id) ==
    StoreStep("removeNode", id, removeNodeState(StoreState, id))

InitStore ==
    /\ \E d \in ViewInputs : TreeLoaded(d)
    /\ CtxIdle
    /\ ViewIdle
    /\ MinimapIdle

NextStore ==
    \/ setNodes
    \/ \E id \in StoreIds, parent \in {0} \cup StoreIds :
          id # parent /\ addNode(StoreNode(id, parent))
    \/ \E id \in StoreIds, parent \in {0} \cup StoreIds :
          id # parent /\ updateNode(id, parent)
    \/ \E id \in StoreIds : removeNode(id)

SpecStore == InitStore /\ [][NextStore]_vars

\* removals among expansions, selections and changes of focus
NextRemove ==
    \/ setNodes
    \/ \E id \in StoreIds : removeNode(id)
    \/ \E id \in StoreIds : expandNode(id)
    \/ \E id \in StoreIds : selectNode(id, TRUE)
    \/ \E id \in StoreIds : setFocusedNode(id)

SpecRemove == InitStore /\ [][NextRemove]_vars

\* C26: rootNodes lists every node of the map that has no parentId, once,
\* and nothing else.
RootNodesExact ==
    /\ \A i, j \in DOMAIN rootNodes : i # j => rootNodes[i] # rootNodes[j]
    /\ Range(rootNodes) = {id \in DOMAIN nodes : nodes[id].parentId = 0}

\* C27: removeNode(id) takes id out of the node map, rootNodes,
\* expandedNodes and selectedNodes, sets focusedNode to null when it was
\* id, and changes nothing else in them.
RemoveNodeFrame ==
    [][lastOp'.op = "removeNode" =>
          LET id == lastOp'.id
          IN  /\ DOMAIN nodes' = DOMAIN nodes \ {id}
              /\ \A k \in DOMAIN nodes' : nodes'[k] = nodes[k]
              /\ id \notin Range(rootNodes')
              /\ rootNodes' = FilterOut(rootNodes, id)
              /\ expandedNodes' = expandedNodes \ {id}
              /\ selectedNodes' = selectedNodes \ {id}
              /\ focusedNode' # id
              /\ focusedNode # id => focusedNode' = focusedNode]_vars

\* a removed node that was a root, expanded and selected, while another
\* node stays expanded, selected and focused
RemovedAmongOthers ==
    /\ lastOp.op = "removeNode"
    /\ lastOp.id \in prevExpanded \cap prevSelected
    /\ lastOp.id \notin DOMAIN nodes
    /\ expandedNodes # {}
    /\ selectedNodes # {}
    /\ focusedNode \in DOMAIN nodes

\* ------------------------------------------------- treeStore: getNodePath
\* nodes.get(id): the id, or null (NoNode) when the map has no such node
MapGet(m, id) == IF id \in DOMAIN m THEN id ELSE NoNode

\* getNodePath(nodeId) up to the loop: path = [], current = nodes.get(nodeId)
getNodePathCall(id) ==
    /\ nodePath.current = NoNode
    /\ nodePath' = [id |-> id, path |-> <<>>, current |-> MapGet(nodes, id)]
    /\ lastOp' = Op("getNodePath", id, FALSE)
    /\ UNCHANGED <<treeVars, ctxVars, viewVars>>
    /\ UNCHANGED <<mmNodes, mmDots, nodeFill, treeData, domVars, procVars>>

\* one pass of while (current): path.unshift(current), then current is
\* the parent's node or null.  Of a path longer than any chain without a
\* repetition only the first MaxNodes + 1 entries are kept.
getNodePathLoop ==
    /\ nodePath.current # NoNode
    /\ LET current == nodes[nodePath.current]
       IN  nodePath' =
               [nodePath EXCEPT
                   !.path = IF Len(@) <= MaxNodes
                            THEN <<nodePath.current>> \o @ ELSE @,
                   !.current = IF current.parentId # 0
                               THEN MapGet(nodes, current.parentId)
                               ELSE NoNode]
    /\ lastOp' = Op("getNodePathLoop", nodePath.id, FALSE)
    /\ UNCHANGED <<treeVars, ctxVars, viewVars>>
    /\ UNCHANGED <<mmNodes, mmDots, nodeFill, treeData, domVars, procVars>>

\* store updates happen between calls: the loop runs synchronously
NextPath ==
    \/ \E id \in StoreIds, parent \in {0} \cup StoreIds :
          id # parent /\ nodePath.current = NoNode /\ updateNode(id, parent)
    \/ \E id \in StoreIds \cup {UnknownId} : getNodePathCall(id)
    \/ getNodePathLoop

InitPath ==
    /\ \E d \in ClickInputs : TreeLoaded(d)
    /\ CtxIdle
    /\ ViewIdle
    /\ MinimapIdle

\* the loop, once entered, keeps running: nothing else is scheduled meanwhile
SpecPath == InitPath /\ [][NextPath]_vars /\ WF_vars(getNodePathLoop)

\* C28: every getNodePath call returns: the loop that a call starts
\* reaches current = null.
GetNodePathReturns ==
    (nodePath.current # NoNode) ~> (nodePath.current = NoNode)

\* ------------------------------------------------------ DocumentProcessor
MaxJobs == 3

JobIds == 1..MaxJobs

\* setJobs(prev => prev.map(j => j.id === id ? { ...j, status } : j)): a
\* job that is not in the list is not added
SetStatus(js, id, status) ==
    [j \in DOMAIN js |-> IF j = id THEN status ELSE js[j]]

ProcStep(name, id) ==
    /\ lastOp' = Op(name, id, FALSE)
    /\ UNCHANGED <<treeVars, ctxVars, viewVars>>
    /\ UNCHANGED <<mmNodes, mmDots, nodeFill, treeData, domVars, nodePath>>

\* the Start Processing button: createJob() puts a pending job first in the
\* list, startJob(job) returns when isProcessing, else sets the flags and
\* the status 'running' and awaits aiService.batchProcessDocuments
startJob(id) ==
    /\ id \notin DOMAIN jobs
    /\ \A j \in JobIds : j < id => j \in DOMAIN jobs
    /\ ~isProcessing
    /\ jobs' = [j \in DOMAIN jobs \cup {id} |->
                   IF j = id THEN "running" ELSE jobs[j]]
    /\ isProcessing' = TRUE
    /\ currentJob' = id
    /\ inflight' = inflight \cup {id}
    /\ UNCHANGED stoppedJobs
    /\ ProcStep("startJob", id)

\* the Pause button of a running job
pauseJob(id) ==
    /\ id \in DOMAIN jobs
    /\ jobs[id] = "running"
    /\ jobs' = SetStatus(jobs, id, "paused")
    /\ UNCHANGED <<isProcessing, currentJob, inflight, stoppedJobs>>
    /\ ProcStep("pauseJob", id)

\* the Stop button of a running job: status 'error', 'Stopped by user'
stopJob(id) ==
    /\ id \in DOMAIN jobs
    /\ jobs[id] = "running"
    /\ jobs' = SetStatus(jobs, id, "error")
    /\ stoppedJobs' = stoppedJobs \cup {id}
    /\ isProcessing' = IF currentJob = id THEN FALSE ELSE isProcessing
    /\ currentJob' = IF currentJob = id THEN NoNode ELSE currentJob
    /\ UNCHANGED inflight
    /\ ProcStep("stopJob", id)

\* the awaited batchProcessDocuments call of job id resolves (ok) or
\* rejects: the status is set, and finally the flags are reset
BatchSettles(id, ok) ==
    /\ id \in inflight
    /\ jobs' = SetStatus(jobs, id, IF ok THEN "completed" ELSE "error")
    /\ inflight' = inflight \ {id}
    /\ isProcessing' = FALSE
    /\ currentJob' = NoNode
    /\ UNCHANGED stoppedJobs
    /\ ProcStep(IF ok THEN "batchResolved" ELSE "batchRejected", id)

InitProc ==
    /\ \E d \in ViewInputs : TreeLoaded(d)
    /\ CtxIdle
    /\ ViewIdle
    /\ MinimapIdle

NextProc ==
    \/ \E id \in JobIds : startJob(id)
    \/ \E id \in JobIds : pauseJob(id)
    \/ \E id \in JobIds : stopJob(id)
    \/ \E id \in JobIds, ok \in BOOLEAN : BatchSettles(id, ok)

SpecProc == InitProc /\ [][NextProc]_vars

\* C29: a job that stopJob has set to 'error' keeps that status.
StoppedJobStaysStopped ==
    \A id \in stoppedJobs : jobs[id] = "error"

\* --------------------------------------- minimap click among other state
NextDotClick ==
    \/ \E id \in ClickIds : selectNode(id, TRUE)
    \/ expandNode(1)
    \/ includeNode(1)
    \/ \E n \in 1..ViewNodes : MinimapClick(n)
    \/ RecenterEnd

SpecDotClick == InitView /\ [][NextDotClick]_vars

\* C30: a click on the minimap dot of node N makes selectedNodes {N} and
\* focusedNode N, starts the recentring on N, and leaves expandedNodes
\* and the three context sets as they were.
MinimapClickFrame ==
    [][lastOp'.op = "minimapClick" =>
          /\ selectedNodes' = {lastOp'.id}
          /\ focusedNode' = lastOp'.id
          /\ recenter'.id = lastOp'.id
          /\ expandedNodes' = expandedNodes
          /\ includedNodes' = includedNodes
          /\ pinnedNodes' = pinnedNodes
          /\ excludedNodes' = excludedNodes]_vars

\* a dot clicked while two other nodes were selected, with a node expanded
\* and a node in the context
DotClickedOverMultiSelection ==
    /\ lastOp.op = "minimapClick"
    /\ Cardinality(prevSelected) >= 2
    /\ lastOp.id \notin prevSelected
    /\ selectedNodes = {lastOp.id}
    /\ expandedNodes # {}
    /\ includedNodes # {}

====
